---- MODULE Spec2Model ----
(***************************************************************************)
(* The ledger engine of src/src/engine.rs: Engine::handle applied to one   *)
(* Transaction at a time, with the two maps of the Engine as state.        *)
(* Amounts are exact decimals in the source (rust_decimal); they are       *)
(* modelled as integers, i.e. decimals of scale 0, far below the 96-bit    *)
(* mantissa, so += and -= are exact and never overflow.                    *)
(***************************************************************************)
EXTENDS Integers, FiniteSets, Sequences, TLC

\* Bounds of the model: the number of calls made on one Engine, and the number
\* of transaction ids tests::Wrapper hands out and of calls made through it, and
\* the number of records main reads from its input.
MaxCalls == 4
MaxWrapperTx == 3
MaxWrapperCalls == 5
MaxRecords == 3

\* The inputs of the calls. ClientId is u16 and TransactionId is u32: two clients
\* (a record's owner and another client) and two transaction ids (one to reuse,
\* one unused). Decimal is signed: the parser delivers negative amounts too.
Clients == {1, 2}
Txs == {1, 2}
Amounts == {0 - 1, 0, 1, 2}

VARIABLES
    state,               \* Engine.state: HashMap<ClientId, ClientState>
    funds_transactions,  \* Engine.funds_transactions: HashMap<TransactionId, TransactionInfo>
    global_dispute,      \* Engine.global_dispute
    last,                \* the last call on the engine: its argument and the Result it returned
    pre,                 \* the engine's fields when the last call was entered
    ncalls,              \* number of calls made on the engine so far
    next_tx,             \* tests::Wrapper.next_tx
    committed,           \* the CommitedTransaction values tests::Wrapper has handed out
    pc,                  \* where main is: "loop", "write", "done" or "failed"
    records,             \* the records reader.deserialize() has yielded to main so far
    handled,             \* the transactions main has passed to handle, with the Results
    output               \* the AccountInfo rows main has written

main_vars == <<pc, records, handled, output>>

vars == <<state, funds_transactions, global_dispute, last, pre, ncalls, next_tx, committed,
          pc, records, handled, output>>

----------------------------------------------------------------------------
\* Status, TransactionInfo, ClientState

StatusNone == "None"
StatusUnderDispute == "UnderDispute"
StatusReversed == "Reversed"

TransactionInfoNew(client, amount) ==
    [client |-> client, amount |-> amount, status |-> StatusNone]

ClientStateDefault == [available |-> 0, held |-> 0, locked |-> FALSE]

----------------------------------------------------------------------------
\* Result<()> and ErrorType

Ok == [kind |-> "Ok"]
ReusedTransactionId(tx) == [kind |-> "ReusedTransactionId", tx |-> tx]
NegativeWithdrawal(tx) == [kind |-> "NegativeWithdrawal", tx |-> tx]
NegativeDeposit(tx) == [kind |-> "NegativeDeposit", tx |-> tx]
LockedAccount(client) == [kind |-> "LockedAccount", client |-> client]
InsufficientFunds(client, tx) ==
    [kind |-> "InsufficientFunds", client |-> client, tx |-> tx]
UnknownTransactionForDispute(tx) == [kind |-> "UnknownTransactionForDispute", tx |-> tx]
TransactionDoesNotMatchClient(tx, client) ==
    [kind |-> "TransactionDoesNotMatchClient", tx |-> tx, client |-> client]
TransactionAlreadyUnderDispute(tx) == [kind |-> "TransactionAlreadyUnderDispute", tx |-> tx]
TransactionNotUnderDispute(tx) == [kind |-> "TransactionNotUnderDispute", tx |-> tx]

\* What handle leaves behind: the two maps and the returned Result.
Outcome(st, ft, result) ==
    [state |-> st, funds_transactions |-> ft, result |-> result]

----------------------------------------------------------------------------
\* HashMap operations used by handle

\* HashMap::insert: the value under key is replaced, whether or not one was there.
Insert(map, key, value) ==
    [k \in (DOMAIN map) \cup {key} |-> IF k = key THEN value ELSE map[k]]

\* old.is_some() for the value HashMap::insert returned.
OldIsSomeNever(map, key) == FALSE

OldIsSome(map, key) == key \in DOMAIN map

\* HashMap::entry(key).or_default(): the map with a default entry added if absent.
EntryOrDefault(st, client) ==
    IF client \in DOMAIN st THEN st ELSE Insert(st, client, ClientStateDefault)

----------------------------------------------------------------------------
\* Engine::handle, one operator per match arm

\* account.locked tested by the Deposit and Withdrawal arms.
AccountLockedIgnored(account) == FALSE

AccountLocked(account) == account.locked

\* account.available < amount of the Withdrawal arm.
AvailableLessThanTotal(account, amount) == account.available + account.held < amount

AvailableLessThan(account, amount) == account.available < amount

\* info.client != transaction.client && !self.global_dispute
ClientMismatchAlways(info, client, gd) == info.client # client

ClientMismatch(info, client, gd) == info.client # client /\ ~gd

\* account.held += info.amount; account.available -= info.amount
DisputeAccountHeldOnly(account, info) ==
    [account EXCEPT !.held = @ + info.amount]

DisputeAccount(account, info) ==
    [account EXCEPT !.held = @ + info.amount, !.available = @ - info.amount]

\* account.held -= info.amount; account.available += info.amount
ResolveAccountHeldOnly(account, info) ==
    [account EXCEPT !.held = @ - info.amount]

ResolveAccount(account, info) ==
    [account EXCEPT !.held = @ - info.amount, !.available = @ + info.amount]

\* account.held -= info.amount; account.locked = true
ChargebackAccountRefund(account, info) ==
    [account EXCEPT !.held = @ - info.amount, !.available = @ + info.amount,
                    !.locked = TRUE]

ChargebackAccount(account, info) ==
    [account EXCEPT !.held = @ - info.amount, !.locked = TRUE]

HandleDeposit(st, ft, client, tx, amount) ==
    IF amount < 0 THEN Outcome(st, ft, NegativeDeposit(tx))
    ELSE LET ft1 == Insert(ft, tx, TransactionInfoNew(client, amount)) IN
         IF OldIsSome(ft, tx) THEN Outcome(st, ft1, ReusedTransactionId(tx))
         ELSE LET st1 == EntryOrDefault(st, client) IN
              IF AccountLocked(st1[client]) THEN Outcome(st1, ft1, LockedAccount(client))
              ELSE Outcome([st1 EXCEPT ![client].available = @ + amount], ft1, Ok)

\* The Withdrawal arm testing the reuse of tx before the sign of the amount.
HandleWithdrawalReuseFirst(st, ft, client, tx, amount) ==
    LET ft1 == Insert(ft, tx, TransactionInfoNew(client, 0 - amount)) IN
    IF OldIsSome(ft, tx) THEN Outcome(st, ft1, ReusedTransactionId(tx))
    ELSE IF amount < 0 THEN Outcome(st, ft, NegativeWithdrawal(tx))
    ELSE LET st1 == EntryOrDefault(st, client) IN
         IF AccountLocked(st1[client]) THEN Outcome(st1, ft1, LockedAccount(client))
         ELSE IF AvailableLessThan(st1[client], amount)
              THEN Outcome(st1, ft1, InsufficientFunds(client, tx))
              ELSE Outcome([st1 EXCEPT ![client].available = @ - amount], ft1, Ok)

HandleWithdrawal(st, ft, client, tx, amount) ==
    IF amount < 0 THEN Outcome(st, ft, NegativeWithdrawal(tx))
    ELSE LET ft1 == Insert(ft, tx, TransactionInfoNew(client, 0 - amount)) IN
         IF OldIsSome(ft, tx) THEN Outcome(st, ft1, ReusedTransactionId(tx))
         ELSE LET st1 == EntryOrDefault(st, client) IN
              IF AccountLocked(st1[client]) THEN Outcome(st1, ft1, LockedAccount(client))
              ELSE IF AvailableLessThan(st1[client], amount)
                   THEN Outcome(st1, ft1, InsufficientFunds(client, tx))
                   ELSE Outcome([st1 EXCEPT ![client].available = @ - amount], ft1, Ok)

\* The Dispute arm with the locked test of the Deposit and Withdrawal arms added.
HandleDisputeLockedBlocks(st, ft, gd, client, tx) ==
    IF tx \notin DOMAIN ft THEN Outcome(st, ft, UnknownTransactionForDispute(tx))
    ELSE LET info == ft[tx] IN
         IF ClientMismatch(info, client, gd)
         THEN Outcome(st, ft, TransactionDoesNotMatchClient(tx, client))
         ELSE IF info.status # StatusNone
              THEN Outcome(st, ft, TransactionAlreadyUnderDispute(tx))
              ELSE LET st1 == EntryOrDefault(st, info.client) IN
                   IF AccountLocked(st1[info.client])
                   THEN Outcome(st1, ft, LockedAccount(info.client))
                   ELSE Outcome([st1 EXCEPT ![info.client] = DisputeAccount(@, info)],
                                [ft EXCEPT ![tx].status = StatusUnderDispute], Ok)

\* The Dispute arm rejecting the dispute of a withdrawal.
HandleDisputeDepositsOnly(st, ft, gd, client, tx) ==
    IF tx \notin DOMAIN ft THEN Outcome(st, ft, UnknownTransactionForDispute(tx))
    ELSE LET info == ft[tx] IN
         IF ClientMismatch(info, client, gd)
         THEN Outcome(st, ft, TransactionDoesNotMatchClient(tx, client))
         ELSE IF info.status # StatusNone \/ info.amount < 0
              THEN Outcome(st, ft, TransactionAlreadyUnderDispute(tx))
              ELSE LET st1 == EntryOrDefault(st, info.client) IN
                   Outcome([st1 EXCEPT ![info.client] = DisputeAccount(@, info)],
                           [ft EXCEPT ![tx].status = StatusUnderDispute], Ok)

\* The Dispute arm updating the account of the client that filed the dispute.
HandleDisputeFiler(st, ft, gd, client, tx) ==
    IF tx \notin DOMAIN ft THEN Outcome(st, ft, UnknownTransactionForDispute(tx))
    ELSE LET info == ft[tx] IN
         IF ClientMismatch(info, client, gd)
         THEN Outcome(st, ft, TransactionDoesNotMatchClient(tx, client))
         ELSE IF info.status # StatusNone
              THEN Outcome(st, ft, TransactionAlreadyUnderDispute(tx))
              ELSE LET st1 == EntryOrDefault(st, client) IN
                   Outcome([st1 EXCEPT ![client] = DisputeAccount(@, info)],
                           [ft EXCEPT ![tx].status = StatusUnderDispute], Ok)

HandleDispute(st, ft, gd, client, tx) ==
    IF tx \notin DOMAIN ft THEN Outcome(st, ft, UnknownTransactionForDispute(tx))
    ELSE LET info == ft[tx] IN
         IF ClientMismatch(info, client, gd)
         THEN Outcome(st, ft, TransactionDoesNotMatchClient(tx, client))
         ELSE IF info.status # StatusNone
              THEN Outcome(st, ft, TransactionAlreadyUnderDispute(tx))
              ELSE LET st1 == EntryOrDefault(st, info.client) IN
                   Outcome([st1 EXCEPT ![info.client] = DisputeAccount(@, info)],
                           [ft EXCEPT ![tx].status = StatusUnderDispute], Ok)

\* The Resolve arm testing the status before the ownership.
HandleResolveStatusFirst(st, ft, gd, client, tx) ==
    IF tx \notin DOMAIN ft THEN Outcome(st, ft, UnknownTransactionForDispute(tx))
    ELSE LET info == ft[tx] IN
         IF info.status # StatusUnderDispute
         THEN Outcome(st, ft, TransactionNotUnderDispute(tx))
         ELSE IF ClientMismatch(info, client, gd)
              THEN Outcome(st, ft, TransactionDoesNotMatchClient(tx, client))
              ELSE LET st1 == EntryOrDefault(st, info.client) IN
                   Outcome([st1 EXCEPT ![info.client] = ResolveAccount(@, info)],
                           [ft EXCEPT ![tx].status = StatusNone], Ok)

HandleResolve(st, ft, gd, client, tx) ==
    IF tx \notin DOMAIN ft THEN Outcome(st, ft, UnknownTransactionForDispute(tx))
    ELSE LET info == ft[tx] IN
         IF ClientMismatch(info, client, gd)
         THEN Outcome(st, ft, TransactionDoesNotMatchClient(tx, client))
         ELSE IF info.status # StatusUnderDispute
              THEN Outcome(st, ft, TransactionNotUnderDispute(tx))
              ELSE LET st1 == EntryOrDefault(st, info.client) IN
                   Outcome([st1 EXCEPT ![info.client] = ResolveAccount(@, info)],
                           [ft EXCEPT ![tx].status = StatusNone], Ok)

HandleChargeback(st, ft, gd, client, tx) ==
    IF tx \notin DOMAIN ft THEN Outcome(st, ft, UnknownTransactionForDispute(tx))
    ELSE LET info == ft[tx] IN
         IF ClientMismatch(info, client, gd)
         THEN Outcome(st, ft, TransactionDoesNotMatchClient(tx, client))
         ELSE IF info.status # StatusUnderDispute
              THEN Outcome(st, ft, TransactionNotUnderDispute(tx))
              ELSE LET st1 == EntryOrDefault(st, info.client) IN
                   Outcome([st1 EXCEPT ![info.client] = ChargebackAccount(@, info)],
                           [ft EXCEPT ![tx].status = StatusReversed], Ok)

\* Event and Transaction values
EvDeposit(tx, amount) == [type |-> "Deposit", tx |-> tx, amount |-> amount]
EvWithdrawal(tx, amount) == [type |-> "Withdrawal", tx |-> tx, amount |-> amount]
EvDispute(tx) == [type |-> "Dispute", tx |-> tx]
EvResolve(tx) == [type |-> "Resolve", tx |-> tx]
EvChargeback(tx) == [type |-> "Chargeback", tx |-> tx]
Transaction(client, event) == [client |-> client, event |-> event]

handle(st, ft, gd, transaction) ==
    LET client == transaction.client
        event == transaction.event
    IN  CASE event.type = "Deposit" -> HandleDeposit(st, ft, client, event.tx, event.amount)
          [] event.type = "Withdrawal" -> HandleWithdrawal(st, ft, client, event.tx, event.amount)
          [] event.type = "Dispute" -> HandleDispute(st, ft, gd, client, event.tx)
          [] event.type = "Resolve" -> HandleResolve(st, ft, gd, client, event.tx)
          [] event.type = "Chargeback" -> HandleChargeback(st, ft, gd, client, event.tx)

----------------------------------------------------------------------------
\* Engine::account_info and Engine::all_accounts

\* account_info reporting available as the total.
AccountInfoTotalIsAvailable(st, client) ==
    IF client \notin DOMAIN st
    THEN [client |-> client, available |-> 0, held |-> 0, total |-> 0, locked |-> FALSE]
    ELSE [client |-> client, available |-> st[client].available, held |-> st[client].held,
          total |-> st[client].available, locked |-> st[client].locked]

account_info(st, client) ==
    IF client \notin DOMAIN st
    THEN [client |-> client, available |-> 0, held |-> 0, total |-> 0, locked |-> FALSE]
    ELSE [client |-> client, available |-> st[client].available, held |-> st[client].held,
          total |-> st[client].available + st[client].held, locked |-> st[client].locked]

\* all_accounts skipping the accounts whose balances are zero.
AllAccountsNonZero(st) ==
    {account_info(st, client) : client \in
        {c \in DOMAIN st : st[c].available # 0 \/ st[c].held # 0}}

\* The items of the iterator all_accounts returns; their order is the HashMap's.
all_accounts(st) == {account_info(st, client) : client \in DOMAIN st}

----------------------------------------------------------------------------
\* The engine driven one call at a time

\* A call that is not a handle call: construction, or set_global_dispute.
NoTransaction(what) == Transaction(0, [type |-> what, tx |-> 0])

Fields == [state |-> state, funds_transactions |-> funds_transactions,
           global_dispute |-> global_dispute]

\* Engine::new
Init ==
    /\ state = << >>
    /\ funds_transactions = << >>
    /\ global_dispute = FALSE
    /\ last = [transaction |-> NoTransaction("new"), result |-> Ok]
    /\ pre = [state |-> << >>, funds_transactions |-> << >>, global_dispute |-> FALSE]
    /\ ncalls = 0
    /\ next_tx = 1
    /\ committed = {}
    /\ pc = "loop"
    /\ records = << >>
    /\ handled = << >>
    /\ output = {}

\* Engine::set_global_dispute
SetGlobalDispute(b) ==
    /\ ncalls < MaxCalls
    /\ global_dispute' = b
    /\ UNCHANGED <<state, funds_transactions>>
    /\ last' = [transaction |-> NoTransaction("set_global_dispute"), result |-> Ok]
    /\ pre' = Fields
    /\ ncalls' = ncalls + 1
    /\ UNCHANGED <<next_tx, committed>>
    /\ UNCHANGED main_vars

\* engine.handle(transaction): the engine's maps become what handle leaves behind.
Handled(transaction) ==
    LET out == handle(state, funds_transactions, global_dispute, transaction) IN
        /\ state' = out.state
        /\ funds_transactions' = out.funds_transactions
        /\ last' = [transaction |-> transaction, result |-> out.result]
        /\ pre' = Fields
        /\ ncalls' = ncalls + 1
        /\ UNCHANGED global_dispute

Deposit(client, tx, amount) ==
    /\ ncalls < MaxCalls
    /\ Handled(Transaction(client, EvDeposit(tx, amount)))
    /\ UNCHANGED <<next_tx, committed>>
    /\ UNCHANGED main_vars

Withdrawal(client, tx, amount) ==
    /\ ncalls < MaxCalls
    /\ Handled(Transaction(client, EvWithdrawal(tx, amount)))
    /\ UNCHANGED <<next_tx, committed>>
    /\ UNCHANGED main_vars

Dispute(client, tx) ==
    /\ ncalls < MaxCalls
    /\ Handled(Transaction(client, EvDispute(tx)))
    /\ UNCHANGED <<next_tx, committed>>
    /\ UNCHANGED main_vars

Resolve(client, tx) ==
    /\ ncalls < MaxCalls
    /\ Handled(Transaction(client, EvResolve(tx)))
    /\ UNCHANGED <<next_tx, committed>>
    /\ UNCHANGED main_vars

Chargeback(client, tx) ==
    /\ ncalls < MaxCalls
    /\ Handled(Transaction(client, EvChargeback(tx)))
    /\ UNCHANGED <<next_tx, committed>>
    /\ UNCHANGED main_vars

\* tests::Wrapper: the harness of the unit tests. It draws every transaction id
\* from its counter next_tx, and disputes, resolves and charges back only the
\* CommitedTransaction values its successful deposits and withdrawals returned.
CommitedTransaction(client, tx) == [client |-> client, tx |-> tx]

\* .map(|()| CommitedTransaction { client, tx }) on the Result of handle
Commit(result, client, tx) ==
    IF result = Ok THEN committed \cup {CommitedTransaction(client, tx)} ELSE committed

WrapperDeposit(client, amount) ==
    /\ ncalls < MaxWrapperCalls
    /\ next_tx <= MaxWrapperTx
    /\ Handled(Transaction(client, EvDeposit(next_tx, amount)))
    /\ next_tx' = next_tx + 1
    /\ committed' = Commit(last'.result, client, next_tx)
    /\ UNCHANGED main_vars

WrapperWithdraw(client, amount) ==
    /\ ncalls < MaxWrapperCalls
    /\ next_tx <= MaxWrapperTx
    /\ Handled(Transaction(client, EvWithdrawal(next_tx, amount)))
    /\ next_tx' = next_tx + 1
    /\ committed' = Commit(last'.result, client, next_tx)
    /\ UNCHANGED main_vars

WrapperDispute(transaction) ==
    /\ ncalls < MaxWrapperCalls
    /\ transaction \in committed
    /\ Handled(Transaction(transaction.client, EvDispute(transaction.tx)))
    /\ UNCHANGED <<next_tx, committed>>
    /\ UNCHANGED main_vars

WrapperResolve(transaction) ==
    /\ ncalls < MaxWrapperCalls
    /\ transaction \in committed
    /\ Handled(Transaction(transaction.client, EvResolve(transaction.tx)))
    /\ UNCHANGED <<next_tx, committed>>
    /\ UNCHANGED main_vars

WrapperChargeback(transaction) ==
    /\ ncalls < MaxWrapperCalls
    /\ transaction \in committed
    /\ Handled(Transaction(transaction.client, EvChargeback(transaction.tx)))
    /\ UNCHANGED <<next_tx, committed>>
    /\ UNCHANGED main_vars

\* Wrapper::account_info: self.engine.account_info(client), a call on &self.
WrapperAccountInfo(client) ==
    /\ ncalls < MaxWrapperCalls
    /\ last' = [transaction |-> Transaction(client, [type |-> "account_info", tx |-> 0]),
                result |-> account_info(state, client)]
    /\ pre' = Fields
    /\ ncalls' = ncalls + 1
    /\ UNCHANGED <<state, funds_transactions, global_dispute, next_tx, committed>>
    /\ UNCHANGED main_vars

\* main, from the creation of the engine on (src/src/main.rs:32-45).
\* A record of the input: a Transaction, or a row that does not deserialize.
RecordOk(transaction) == [ok |-> TRUE, transaction |-> transaction]
RecordErr == [ok |-> FALSE]

MainAmounts == {0 - 1, 1}
MainTransactions ==
    {Transaction(c, EvDeposit(tx, a)) : c \in Clients, tx \in Txs, a \in MainAmounts}
    \cup {Transaction(c, EvWithdrawal(tx, a)) : c \in Clients, tx \in Txs, a \in MainAmounts}
    \cup {Transaction(c, EvDispute(tx)) : c \in Clients, tx \in Txs}
    \cup {Transaction(c, EvResolve(tx)) : c \in Clients, tx \in Txs}
    \cup {Transaction(c, EvChargeback(tx)) : c \in Clients, tx \in Txs}

\* main stopping at the first event handle rejects.
AfterHandleAbort(result) == IF result = Ok THEN "loop" ELSE "failed"

\* if let Err(err) = engine.handle(transaction) { eprintln!(...) }: where main goes on.
AfterHandle(result) == "loop"

\* The loop body for a record that deserializes.
MainHandle(transaction) ==
    /\ pc = "loop"
    /\ Len(records) < MaxRecords
    /\ Handled(transaction)
    /\ records' = Append(records, RecordOk(transaction))
    /\ handled' = Append(handled, [transaction |-> transaction, result |-> last'.result])
    /\ pc' = AfterHandle(last'.result)
    /\ UNCHANGED <<output, next_tx, committed>>

\* let transaction: Transaction = record?; for a record that does not deserialize.
MainRecordError ==
    /\ pc = "loop"
    /\ Len(records) < MaxRecords
    /\ records' = Append(records, RecordErr)
    /\ pc' = "failed"
    /\ UNCHANGED <<state, funds_transactions, global_dispute, last, pre, ncalls,
                   next_tx, committed, handled, output>>

\* The iterator of records is exhausted: the loop ends.
MainEndOfInput ==
    /\ pc = "loop"
    /\ pc' = "write"
    /\ UNCHANGED <<state, funds_transactions, global_dispute, last, pre, ncalls,
                   next_tx, committed, records, handled, output>>

\* for info in engine.all_accounts() { writer.serialize(info)?; }
MainWrite ==
    /\ pc = "write"
    /\ output' = all_accounts(state)
    /\ pc' = "done"
    /\ UNCHANGED <<state, funds_transactions, global_dispute, last, pre, ncalls,
                   next_tx, committed, records, handled>>

Next ==
    \/ \E b \in BOOLEAN : SetGlobalDispute(b)
    \/ \E client \in Clients, tx \in Txs, amount \in Amounts : Deposit(client, tx, amount)
    \/ \E client \in Clients, tx \in Txs, amount \in Amounts : Withdrawal(client, tx, amount)
    \/ \E client \in Clients, tx \in Txs : Dispute(client, tx)
    \/ \E client \in Clients, tx \in Txs : Resolve(client, tx)
    \/ \E client \in Clients, tx \in Txs : Chargeback(client, tx)

Spec == Init /\ [][Next]_vars

\* The engine as the unit tests drive it, through tests::Wrapper.
WrapperNext ==
    \/ \E client \in Clients, amount \in Amounts : WrapperDeposit(client, amount)
    \/ \E client \in Clients, amount \in Amounts : WrapperWithdraw(client, amount)
    \/ \E client \in Clients, tx \in 1..MaxWrapperTx :
           WrapperDispute(CommitedTransaction(client, tx))
    \/ \E client \in Clients, tx \in 1..MaxWrapperTx :
           WrapperResolve(CommitedTransaction(client, tx))
    \/ \E client \in Clients, tx \in 1..MaxWrapperTx :
           WrapperChargeback(CommitedTransaction(client, tx))
    \/ \E client \in Clients : WrapperAccountInfo(client)

WrapperSpec == Init /\ [][WrapperNext]_vars

\* The program: main reading its input to the end and writing the accounts.
MainNext ==
    \/ \E transaction \in MainTransactions : MainHandle(transaction)
    \/ MainRecordError
    \/ MainEndOfInput
    \/ MainWrite

MainSpec == Init /\ [][MainNext]_vars

----------------------------------------------------------------------------
\* The last call as handle saw it, and the accounts before and after it

LastType == last.transaction.event.type
LastClient == last.transaction.client
LastTx == last.transaction.event.tx
LastAmount == last.transaction.event.amount
LastResult == last.result
LastIsFunds == LastType \in {"Deposit", "Withdrawal"}
LastIsDisputeFlow == LastType \in {"Dispute", "Resolve", "Chargeback"}

Info(client) == account_info(state, client)
PreInfo(client) == account_info(pre.state, client)

BalancesUnchanged ==
    \A c \in Clients :
        /\ Info(c).available = PreInfo(c).available
        /\ Info(c).held = PreInfo(c).held
        /\ Info(c).locked = PreInfo(c).locked

----------------------------------------------------------------------------
\* C1: a Deposit rejected with LockedAccount, or a Withdrawal rejected with
\* LockedAccount or InsufficientFunds, leaves the transaction map as it was
\* before the call, so the rejected tx id has no record.
C1_RejectedFundsEventKeepsTransactionMap ==
    (LastIsFunds /\ LastResult.kind \in {"LockedAccount", "InsufficientFunds"})
        => /\ funds_transactions = pre.funds_transactions
           /\ LastTx \notin DOMAIN funds_transactions

\* C2: when a Deposit or Withdrawal is rejected with ReusedTransactionId, the
\* record already stored for that tx keeps its owner, signed amount and status.
C2_ReuseKeepsStoredRecord ==
    (LastIsFunds /\ LastResult.kind = "ReusedTransactionId")
        => funds_transactions[LastTx] = pre.funds_transactions[LastTx]

\* C3: a Deposit or Withdrawal with non-negative amount whose tx is already in
\* the transaction map returns ReusedTransactionId{tx}, whichever client
\* submits it, and leaves every client's available, held and locked unchanged.
C3_ReusedTxRejected ==
    (LastIsFunds /\ LastAmount >= 0 /\ LastTx \in DOMAIN pre.funds_transactions)
        => /\ LastResult = ReusedTransactionId(LastTx)
           /\ BalancesUnchanged

\* C3 witness: a client other than the record's owner reuses the tx of a
\* transaction that credited the owner, and is rejected.
C3_Witness ==
    /\ LastIsFunds /\ LastAmount >= 0
    /\ LastTx \in DOMAIN pre.funds_transactions
    /\ pre.funds_transactions[LastTx].client # LastClient
    /\ PreInfo(pre.funds_transactions[LastTx].client).available > 0
    /\ LastResult = ReusedTransactionId(LastTx)

\* C4: Reversed is terminal: a transaction whose status is Reversed (a
\* Chargeback has succeeded on it) is still Reversed after any later call, and
\* every later Dispute, Resolve or Chargeback on it is rejected.
C4_ReversedIsTerminal ==
    \A tx \in DOMAIN pre.funds_transactions :
        pre.funds_transactions[tx].status = StatusReversed
            => /\ tx \in DOMAIN funds_transactions
               /\ funds_transactions[tx].status = StatusReversed
               /\ (LastIsDisputeFlow /\ LastTx = tx) => LastResult # Ok

\* C5: a successful Chargeback(tx) on a transaction that is UnderDispute sets
\* its status to Reversed, decreases the owner's held by the signed amount,
\* sets the owner's locked to true and leaves the owner's available unchanged.
C5_ChargebackEffect ==
    (/\ LastType = "Chargeback" /\ LastResult = Ok
     /\ pre.funds_transactions[LastTx].status = StatusUnderDispute)
        => LET info == pre.funds_transactions[LastTx]
               owner == info.client
           IN  /\ funds_transactions[LastTx].status = StatusReversed
               /\ Info(owner).held = PreInfo(owner).held - info.amount
               /\ Info(owner).locked
               /\ Info(owner).available = PreInfo(owner).available

\* C5 witness: a Chargeback has succeeded on a disputed transaction of non-zero
\* amount, on an account that was not locked before.
C5_Witness ==
    /\ LastType = "Chargeback" /\ LastResult = Ok
    /\ pre.funds_transactions[LastTx].status = StatusUnderDispute
    /\ pre.funds_transactions[LastTx].amount # 0
    /\ ~PreInfo(pre.funds_transactions[LastTx].client).locked
    /\ Info(pre.funds_transactions[LastTx].client).locked

\* C6: locking is permanent: a client that is locked before a call is locked
\* after it, and a Deposit or Withdrawal for that client is rejected (with
\* LockedAccount when the amount is non-negative and the tx id is unused) and
\* does not change that client's available or held.
C6_LockedIsPermanent ==
    \A c \in Clients :
        PreInfo(c).locked
            => /\ Info(c).locked
               /\ (LastIsFunds /\ LastClient = c)
                    => /\ LastResult # Ok
                       /\ (LastAmount >= 0 /\ LastTx \notin DOMAIN pre.funds_transactions)
                            => LastResult = LockedAccount(c)
                       /\ Info(c).available = PreInfo(c).available
                       /\ Info(c).held = PreInfo(c).held

\* C6 witness: a Deposit with an unused tx and a positive amount arrives for a
\* locked client and is rejected with LockedAccount.
C6_Witness ==
    /\ LastType = "Deposit" /\ LastAmount > 0
    /\ PreInfo(LastClient).locked
    /\ LastTx \notin DOMAIN pre.funds_transactions
    /\ LastResult = LockedAccount(LastClient)

\* A successful Withdrawal never leaves the withdrawing client's available below zero.
WithdrawalKeepsAvailableNonNegative ==
    (LastType = "Withdrawal" /\ LastResult = Ok) => Info(LastClient).available >= 0

\* C7 as stated: a Withdrawal with an unused tx on an unlocked account whose
\* amount exceeds the client's available fails with InsufficientFunds and leaves
\* available and held of every client unchanged; a successful Withdrawal never
\* leaves available below zero.
C7_Original ==
    /\ (/\ LastType = "Withdrawal"
        /\ LastTx \notin DOMAIN pre.funds_transactions
        /\ ~PreInfo(LastClient).locked
        /\ LastAmount > PreInfo(LastClient).available)
            => /\ LastResult = InsufficientFunds(LastClient, LastTx)
               /\ BalancesUnchanged
    /\ WithdrawalKeepsAvailableNonNegative

\* C7 amended: the same for a Withdrawal whose amount is non-negative (a negative
\* amount is rejected with NegativeWithdrawal before available is looked at).
C7_InsufficientFunds ==
    /\ (/\ LastType = "Withdrawal"
        /\ LastAmount >= 0
        /\ LastTx \notin DOMAIN pre.funds_transactions
        /\ ~PreInfo(LastClient).locked
        /\ LastAmount > PreInfo(LastClient).available)
            => /\ LastResult = InsufficientFunds(LastClient, LastTx)
               /\ BalancesUnchanged
    /\ WithdrawalKeepsAvailableNonNegative

\* C7 witness: a Withdrawal that the client's total would cover but its
\* available does not (part of the funds is held) is rejected with
\* InsufficientFunds.
C7_Witness ==
    /\ LastType = "Withdrawal" /\ LastAmount >= 0
    /\ LastTx \notin DOMAIN pre.funds_transactions
    /\ ~PreInfo(LastClient).locked
    /\ LastAmount > PreInfo(LastClient).available
    /\ LastAmount <= PreInfo(LastClient).total
    /\ LastResult = InsufficientFunds(LastClient, LastTx)

\* C8: Dispute followed by Resolve of the same transaction is the identity: when
\* the call right after a successful Dispute(tx) is Resolve(tx) by the same
\* client, it succeeds and the owner's available, held and locked and the status
\* of tx (None) are what they were before the Dispute.
C8_DisputeResolveRoundTrip ==
    [][(/\ LastType = "Dispute" /\ LastResult = Ok
        /\ last'.transaction = Transaction(LastClient, EvResolve(LastTx)))
          => LET owner == pre.funds_transactions[LastTx].client IN
             /\ last'.result = Ok
             /\ account_info(state', owner) = account_info(pre.state, owner)
             /\ pre.funds_transactions[LastTx].status = StatusNone
             /\ funds_transactions'[LastTx].status = StatusNone]_vars

\* C8 witness: the third call on the engine is a successful Resolve of a
\* transaction of non-zero amount. A Resolve needs a record and an open dispute
\* on it, so the three calls were its Deposit or Withdrawal, its Dispute and,
\* right after that, its Resolve.
C8_Witness ==
    /\ ncalls = 3
    /\ LastType = "Resolve" /\ LastResult = Ok
    /\ funds_transactions[LastTx].amount # 0
    /\ funds_transactions[LastTx].status = StatusNone

\* C9: a client's total (available + held) changes only through a successful
\* Deposit, Withdrawal or Chargeback: every Dispute and Resolve and every
\* rejected event leaves the total of every client unchanged, and a successful
\* Chargeback changes only the owner's total, by minus the signed amount.
C9_TotalChanges ==
    \A c \in Clients :
        /\ Info(c).total # PreInfo(c).total
            => (LastType \in {"Deposit", "Withdrawal", "Chargeback"} /\ LastResult = Ok)
        /\ (LastType = "Chargeback" /\ LastResult = Ok)
            => LET info == pre.funds_transactions[LastTx] IN
               Info(c).total = PreInfo(c).total - (IF c = info.client THEN info.amount ELSE 0)

\* C9 witness: a successful Dispute has moved a non-zero amount between
\* available and held.
C9_Witness ==
    /\ LastType = "Dispute" /\ LastResult = Ok
    /\ pre.funds_transactions[LastTx].amount # 0
    /\ Info(pre.funds_transactions[LastTx].client).held
         # PreInfo(pre.funds_transactions[LastTx].client).held

\* What the status check alone decides for a Dispute, Resolve or Chargeback.
StatusVerdict(type, tx, status) ==
    IF type = "Dispute"
    THEN IF status = StatusNone THEN Ok ELSE TransactionAlreadyUnderDispute(tx)
    ELSE IF status = StatusUnderDispute THEN Ok ELSE TransactionNotUnderDispute(tx)

\* C10: with global_dispute off, a Dispute, Resolve or Chargeback on a known tx
\* by a client other than the record's owner is rejected with
\* TransactionDoesNotMatchClient and changes no state; with global_dispute on it
\* is never rejected for ownership and the status check alone decides it.
C10_OwnershipCheck ==
    (/\ LastIsDisputeFlow
     /\ LastTx \in DOMAIN pre.funds_transactions
     /\ pre.funds_transactions[LastTx].client # LastClient)
        => IF pre.global_dispute
           THEN LastResult =
                    StatusVerdict(LastType, LastTx, pre.funds_transactions[LastTx].status)
           ELSE /\ LastResult = TransactionDoesNotMatchClient(LastTx, LastClient)
                /\ Fields = pre

\* C10 witness: with global_dispute on, a client other than the owner has
\* disputed a transaction and the Dispute succeeded.
C10_Witness ==
    /\ LastType = "Dispute"
    /\ LastTx \in DOMAIN pre.funds_transactions
    /\ pre.funds_transactions[LastTx].client # LastClient
    /\ pre.global_dispute
    /\ LastResult = Ok

\* C11: locking blocks only deposits and withdrawals: on a locked account, a
\* Dispute by the owner on one of its transactions whose status is None
\* succeeds and moves the signed amount from available to held, as on an
\* unlocked account.
C11_DisputeOnLockedAccount ==
    (/\ LastType = "Dispute"
     /\ LastTx \in DOMAIN pre.funds_transactions
     /\ pre.funds_transactions[LastTx].client = LastClient
     /\ pre.funds_transactions[LastTx].status = StatusNone
     /\ PreInfo(LastClient).locked)
        => LET amount == pre.funds_transactions[LastTx].amount IN
           /\ LastResult = Ok
           /\ funds_transactions[LastTx].status = StatusUnderDispute
           /\ Info(LastClient).held = PreInfo(LastClient).held + amount
           /\ Info(LastClient).available = PreInfo(LastClient).available - amount
           /\ Info(LastClient).locked

\* C11 witness: the owner of a locked account has disputed another of its
\* transactions, of non-zero amount, and the Dispute succeeded.
C11_Witness ==
    /\ LastType = "Dispute" /\ LastResult = Ok
    /\ pre.funds_transactions[LastTx].client = LastClient
    /\ pre.funds_transactions[LastTx].amount # 0
    /\ PreInfo(LastClient).locked
    /\ Info(LastClient).held # PreInfo(LastClient).held

\* C12: account_info(client) reports total = available + held, reports zero
\* balances and unlocked for a client with no ledger state, and is a pure read:
\* it changes no engine state and creates no account.
C12_AccountInfo ==
    LastType = "account_info"
        => /\ LastResult.client = LastClient
           /\ LastResult.total = LastResult.available + LastResult.held
           /\ LastClient \in DOMAIN pre.state
                => /\ LastResult.available = pre.state[LastClient].available
                   /\ LastResult.held = pre.state[LastClient].held
                   /\ LastResult.locked = pre.state[LastClient].locked
           /\ LastClient \notin DOMAIN pre.state
                => /\ LastResult.available = 0 /\ LastResult.held = 0
                   /\ LastResult.total = 0 /\ LastResult.locked = FALSE
                   /\ LastClient \notin DOMAIN state
           /\ Fields = pre

\* C12 witness: account_info has been called for a client with held funds, while
\* the other client has no ledger state.
C12_Witness ==
    /\ LastType = "account_info"
    /\ LastResult.held # 0 /\ LastResult.available # 0
    /\ \E c \in Clients : c \notin DOMAIN state

----------------------------------------------------------------------------
\* main's run as the claims see it

HandledClients == {handled[i].transaction.client : i \in DOMAIN handled}

AcceptedFundsClients ==
    {handled[i].transaction.client : i \in
        {j \in DOMAIN handled :
            /\ handled[j].transaction.event.type \in {"Deposit", "Withdrawal"}
            /\ handled[j].result = Ok}}

OutputClients == {info.client : info \in output}

C14_RejectedEventDoesNotAbort ==
    /\ Len(handled) <= Len(records)
    /\ \A i \in DOMAIN handled : records[i] = RecordOk(handled[i].transaction)
    /\ pc = "failed"
        => /\ Len(records) = Len(handled) + 1
           /\ records[Len(records)] = RecordErr
    /\ pc # "failed" => Len(records) = Len(handled)
    /\ pc = "done" => output = all_accounts(state)
    /\ pc # "done" => output = {}

\* C14 witness: handle rejected the first event, the later events were handled,
\* the last of them successfully, and the snapshot written has an entry.
C14_Witness ==
    /\ pc = "done"
    /\ Len(handled) = MaxRecords
    /\ handled[1].result # Ok
    /\ handled[Len(handled)].result = Ok
    /\ output # {}

\* What the checks of a Deposit or Withdrawal decide, taken in the claimed order,
\* on the engine as the call found it.
FundsVerdict(type, client, tx, amount) ==
    IF amount < 0
    THEN IF type = "Deposit" THEN NegativeDeposit(tx) ELSE NegativeWithdrawal(tx)
    ELSE IF tx \in DOMAIN pre.funds_transactions THEN ReusedTransactionId(tx)
    ELSE IF PreInfo(client).locked THEN LockedAccount(client)
    ELSE IF type = "Withdrawal" /\ PreInfo(client).available < amount
         THEN InsufficientFunds(client, tx)
         ELSE Ok

\* C15: the checks of a Deposit or Withdrawal are applied in the order negative
\* amount, tx already present, locked account, and for a Withdrawal only
\* available < amount; the first that fails decides the error kind, a zero
\* amount is accepted, and the event succeeds exactly when none fails.
C15_FundsCheckOrder ==
    LastIsFunds
        => LastResult.kind = FundsVerdict(LastType, LastClient, LastTx, LastAmount).kind

\* C15 witness: a Withdrawal of a negative amount, with a tx already present, on
\* a locked account, was rejected with NegativeWithdrawal.
C15_Witness ==
    /\ LastType = "Withdrawal"
    /\ LastAmount < 0
    /\ LastTx \in DOMAIN pre.funds_transactions
    /\ PreInfo(LastClient).locked
    /\ LastResult = NegativeWithdrawal(LastTx)

\* What the checks of a Dispute, Resolve or Chargeback decide, taken in the
\* claimed order, on the engine as the call found it.
DisputeFlowVerdict(type, client, tx) ==
    IF tx \notin DOMAIN pre.funds_transactions THEN UnknownTransactionForDispute(tx)
    ELSE IF pre.funds_transactions[tx].client # client /\ ~pre.global_dispute
         THEN TransactionDoesNotMatchClient(tx, client)
         ELSE StatusVerdict(type, tx, pre.funds_transactions[tx].status)

\* C16: the checks of a Dispute, Resolve or Chargeback are applied in the order
\* unknown tx, ownership, status; when one of them fails, every account and
\* every transaction record is unchanged and no account is created.
C16_DisputeFlowCheckOrder ==
    LastIsDisputeFlow
        => /\ LastResult.kind = DisputeFlowVerdict(LastType, LastClient, LastTx).kind
           /\ LastResult # Ok
                => /\ state = pre.state
                   /\ funds_transactions = pre.funds_transactions
                   /\ DOMAIN state = DOMAIN pre.state

\* C16 witness: a client without an account has sent a Resolve for another
\* client's transaction that is not under dispute: the ownership check decided,
\* and the client still has no account.
C16_Witness ==
    /\ LastType = "Resolve"
    /\ LastTx \in DOMAIN pre.funds_transactions
    /\ pre.funds_transactions[LastTx].client # LastClient
    /\ pre.funds_transactions[LastTx].status # StatusUnderDispute
    /\ LastResult = TransactionDoesNotMatchClient(LastTx, LastClient)
    /\ LastClient \notin DOMAIN state

\* C17: a successful Dispute sets the status of tx to UnderDispute and applies
\* held += signed_amount and available -= signed_amount to the owner's account
\* with the stored sign; the dispute of a withdrawal is not rejected; locked,
\* every other account and every other record are unchanged.
C17_DisputeEffect ==
    LastType = "Dispute"
        => LET known == LastTx \in DOMAIN pre.funds_transactions IN
           /\ LastResult = Ok
                => LET info == pre.funds_transactions[LastTx]
                       owner == pre.funds_transactions[LastTx].client
                   IN  /\ funds_transactions[LastTx] =
                              [info EXCEPT !.status = StatusUnderDispute]
                       /\ Info(owner).held = PreInfo(owner).held + info.amount
                       /\ Info(owner).available = PreInfo(owner).available - info.amount
                       /\ Info(owner).locked = PreInfo(owner).locked
                       /\ \A c \in Clients \ {owner} : Info(c) = PreInfo(c)
                       /\ DOMAIN funds_transactions = DOMAIN pre.funds_transactions
                       /\ \A t \in DOMAIN funds_transactions \ {LastTx} :
                              funds_transactions[t] = pre.funds_transactions[t]
           /\ (/\ known
               /\ pre.funds_transactions[LastTx].amount < 0
               /\ pre.funds_transactions[LastTx].status = StatusNone
               /\ (pre.funds_transactions[LastTx].client = LastClient \/ pre.global_dispute))
                => LastResult = Ok

\* C17 witness: a withdrawal has been disputed successfully: held went below
\* zero and available went up, while another record exists.
C17_Witness ==
    /\ LastType = "Dispute" /\ LastResult = Ok
    /\ pre.funds_transactions[LastTx].amount < 0
    /\ Info(LastClient).held < 0
    /\ Info(LastClient).available > PreInfo(LastClient).available
    /\ Cardinality(DOMAIN funds_transactions) = 2

\* C18: a Deposit or Withdrawal submitted by a client, accepted or rejected,
\* changes no other client's available, held or locked; with global_dispute on,
\* a Dispute, Resolve or Chargeback filed by a non-owner changes only the
\* account of the record's owner, never the filing client's account.
C18_AccountsIsolated ==
    /\ LastIsFunds => \A c \in Clients \ {LastClient} : Info(c) = PreInfo(c)
    /\ (/\ LastIsDisputeFlow
        /\ pre.global_dispute
        /\ LastTx \in DOMAIN pre.funds_transactions
        /\ pre.funds_transactions[LastTx].client # LastClient)
            => \A c \in Clients \ {pre.funds_transactions[LastTx].client} :
                   Info(c) = PreInfo(c)

\* C18 witness: with global_dispute on, a client has disputed another client's
\* transaction of non-zero amount: the owner's balances moved.
C18_Witness ==
    /\ LastType = "Dispute" /\ LastResult = Ok
    /\ pre.global_dispute
    /\ pre.funds_transactions[LastTx].client # LastClient
    /\ Info(pre.funds_transactions[LastTx].client)
         # PreInfo(pre.funds_transactions[LastTx].client)

\* The sum of the signed amounts of the records of ft whose ids are in txs.
RECURSIVE SumOfAmounts(_, _)
SumOfAmounts(ft, txs) ==
    IF txs = {} THEN 0
    ELSE LET t == CHOOSE x \in txs : TRUE IN ft[t].amount + SumOfAmounts(ft, txs \ {t})

\* C19: in every reachable state and for every client, held equals the sum of
\* the signed amounts of the records the client owns whose status is
\* UnderDispute.
C19_HeldIsSumOfDisputed ==
    \A c \in Clients :
        Info(c).held =
            SumOfAmounts(funds_transactions,
                         {t \in DOMAIN funds_transactions :
                             /\ funds_transactions[t].client = c
                             /\ funds_transactions[t].status = StatusUnderDispute})

\* The accepted Deposit or Withdrawal of client c with id tx among the first n
\* events main handled, as a set of positions in handled.
AcceptedFunds(c, tx, n) ==
    {j \in 1..n :
        /\ handled[j].result = Ok
        /\ handled[j].transaction.client = c
        /\ handled[j].transaction.event.type \in {"Deposit", "Withdrawal"}
        /\ handled[j].transaction.event.tx = tx}

\* The signed amount of an accepted Deposit or Withdrawal.
SignedAmount(transaction) ==
    IF transaction.event.type = "Deposit"
    THEN transaction.event.amount
    ELSE 0 - transaction.event.amount

\* What the i-th handled event contributes to the total of client c by the
\* conservation law: accepted Deposits add, accepted Withdrawals subtract, an
\* accepted Chargeback removes the signed amount of the client's transaction.
Contribution(c, i) ==
    LET transaction == handled[i].transaction
        event == handled[i].transaction.event
    IN  IF handled[i].result # Ok THEN 0
        ELSE IF event.type \in {"Deposit", "Withdrawal"}
             THEN IF transaction.client = c THEN SignedAmount(transaction) ELSE 0
        ELSE IF event.type = "Chargeback"
             THEN LET of == AcceptedFunds(c, event.tx, i - 1) IN
                  IF of = {} THEN 0
                  ELSE 0 - SignedAmount(handled[CHOOSE j \in of : TRUE].transaction)
        ELSE 0

RECURSIVE ConservedTotal(_, _)
ConservedTotal(c, n) ==
    IF n = 0 THEN 0 ELSE ConservedTotal(c, n - 1) + Contribution(c, n)

\* C20: in every reachable state and for every client, available + held equals
\* the accepted Deposits minus the accepted Withdrawals minus the signed amounts
\* of the client's transactions charged back; rejected events contribute nothing.
C20_Conservation ==
    \A c \in Clients : Info(c).total = ConservedTotal(c, Len(handled))

====
